---- MODULE Spec2Model ----
(***************************************************************************)
(* Model of the retraining drivers (zf_retrain.py, ce_retrain.py), of the  *)
(* feed-dict construction and masked hidden layer of mixedInputModel.py,   *)
(* and of the rank-error loop of trainingGround.py.                        *)
(***************************************************************************)
EXTENDS Integers, Sequences, FiniteSets, TLC

VARIABLES
    driver,        \* "zf" (zf_retrain.py) or "ce" (ce_retrain.py)
    data_size,     \* <<data_size of training dataset 1, of training dataset 2>>
    train_ix,      \* ce_retrain.py train_ix, as dataset numbers 1, 2
    pc,            \* position of the script
    global_step,   \* retrain: global_step
    test_steps,    \* retrain: test_steps
    test_errors,   \* retrain: test_errors
    error_file,    \* retrain: the contents of error_file, once written
    events,        \* history of the current retrain call: tests, trainings, saves
    inv,           \* number of the current invocation of the driver script
    i,             \* index of the model directory in paths_512 (1-based)
    cond,          \* ablation condition being handled: 1 (first) or 2 (second)
    folders,       \* output folders that exist on disk: <<model, condition>>
    ckpt,          \* per folder: the global steps of the checkpoints written to it
    logs,          \* per folder: the number of losses.hdf5 files written to it
    made,          \* folders created (os.mkdir) by the current invocation
    called,        \* folders retrain was called on by the current invocation
    start_folders, \* folders that existed when the current invocation started
    prev_done,     \* the previous invocation ran to completion
    n_train,       \* training steps performed by the current invocation
    n_write,       \* checkpoint and log files written by the current invocation
    model,         \* state of the object bound to the script's variable model
    uncleared,     \* loaded model objects that were dropped without clear()
    load_on,       \* state of the model object when load was last called on it
    feed_pc,       \* mixedInputModel.py: position of a create_feed_dict call
    removal,       \* create_feed_dict: the argument removal
    y_vals,        \* create_feed_dict: the argument y_vals
    keep,          \* create_feed_dict: the argument keep
    f_dict,        \* the feed dict under construction or returned
    scale,         \* create_hidden_layer: scale of each layer, once evaluated
    h,             \* create_hidden_layer: whether each layer's output is finite
    rank_pc,       \* trainingGround.py: position in the body of the training loop
    batch_no,      \* number of the batch that training_batch returned
    elem,          \* the loop variable elem
    rank_real,     \* rank_real of the sample handled last
    rank_pred,     \* rank_pred of the sample handled last
    sum_rank_diffs, \* sum_rank_diffs
    rank_errors    \* the list rank_errors, each entry a fraction num / den

retrainVars == <<global_step, test_steps, test_errors, error_file, events>>
driverVars == <<inv, i, cond, folders, ckpt, logs, made, called, start_folders,
                prev_done, n_train, n_write, model, uncleared, load_on>>
scriptVars == <<driver, data_size, train_ix, pc, retrainVars, driverVars>>
feedVars == <<feed_pc, removal, y_vals, keep, f_dict, scale, h>>
rankVars == <<rank_pc, batch_no, elem, rank_real, rank_pred, sum_rank_diffs, rank_errors>>
vars == <<scriptVars, feedVars, rankVars>>

-----------------------------------------------------------------------------
(* Bounds of the model *)

\* number of model directories in paths_512
NModels == 2
\* number of invocations of a driver script
MaxInvocations == 3
\* rank errors returned by a.rank_error range over 0..MaxErr
MaxErr == 1

(* Program constants *)

BATCHSIZE == 32
EVAL_TEST_EVERY == 50

\* data sizes of the training datasets for a single retrain call
TrainSizes == {0, 40, 160, 320, 1600, 1632}
\* data sizes of the training datasets for the batch driver
DriverSizes == {0, 64}

Drivers == {"zf", "ce"}
Conds == {1, 2}
AllFolders == (1..NModels) \X Conds
Perms == {<<1, 2>>, <<2, 1>>}

-----------------------------------------------------------------------------
(* retrain *)

\* a plausible slip: both loops draw from the dataset of the first
PhaseData_first(phase) ==
    IF driver = "zf" THEN 1 ELSE train_ix[1]

\* the dataset a phase draws its training batches from
PhaseData(phase) ==
    IF driver = "zf" THEN phase ELSE train_ix[phase]

epoch_1_size == data_size[PhaseData(1)] \div BATCHSIZE

\* a plausible slip: the second epoch sized by the first dataset
epoch_2_size_copy == data_size[PhaseData(1)] \div BATCHSIZE

epoch_2_size == data_size[PhaseData(2)] \div BATCHSIZE

\* the folder of the retrain call in progress
save_path == <<i, cond>>

\* entries of the history: op, the global step, the loop (phase) and dataset of a
\* training batch, the rank error of a test
TestEvent(g, re) == [op |-> "test", step |-> g, phase |-> 0, data |-> 0, val |-> re]
TrainEvent(g, ph, d) == [op |-> "train", step |-> g, phase |-> ph, data |-> d, val |-> 0]
SaveEvent(g) == [op |-> "save", step |-> g, phase |-> 0, data |-> 0, val |-> 0]
LogEvent(n) == [op |-> "log", step |-> n, phase |-> 0, data |-> 0, val |-> 0]

\* a plausible slip: no evaluation before the first training step
EvalDue_skip0(g) == g % EVAL_TEST_EVERY = 0 /\ g # 0

\* whether the loop body evaluates on the test set before training
EvalDue(g) == g % EVAL_TEST_EVERY = 0

\* one iteration of a training loop: test() if due, then one training batch
LoopBody(phase) ==
    \E re \in 0..MaxErr :
        LET due == EvalDue(global_step)
            tr == TrainEvent(global_step, phase, PhaseData(phase))
        IN  /\ test_errors' = IF due THEN Append(test_errors, re) ELSE test_errors
            /\ test_steps' = IF due THEN Append(test_steps, global_step) ELSE test_steps
            /\ events' = IF due
                         THEN events \o <<TestEvent(global_step, re), tr>>
                         ELSE Append(events, tr)
            /\ (due \/ re = 0)
            /\ global_step' = global_step + 1
            /\ n_train' = n_train + 1
            /\ UNCHANGED error_file

Phase1Step ==
    /\ pc = "phase1"
    /\ global_step < epoch_1_size
    /\ LoopBody(1)
    /\ UNCHANGED <<feedVars, rankVars>>
    /\ UNCHANGED <<driver, data_size, train_ix, pc, inv, i, cond, folders, ckpt, logs,
                   made, called, start_folders, prev_done, n_write, model, uncleared, load_on>>

\* a plausible slip: the step counter restarted for the second loop
Phase1Exit_reset ==
    /\ pc = "phase1"
    /\ ~(global_step < epoch_1_size)
    /\ pc' = "phase2"
    /\ global_step' = 0
    /\ UNCHANGED <<feedVars, rankVars>>
    /\ UNCHANGED <<driver, data_size, train_ix, test_steps, test_errors, error_file,
                   events, driverVars>>

Phase1Exit ==
    /\ pc = "phase1"
    /\ ~(global_step < epoch_1_size)
    /\ pc' = "phase2"
    /\ UNCHANGED <<feedVars, rankVars>>
    /\ UNCHANGED <<driver, data_size, train_ix, retrainVars, driverVars>>

Phase2Step ==
    /\ pc = "phase2"
    /\ global_step < epoch_1_size + epoch_2_size
    /\ LoopBody(2)
    /\ UNCHANGED <<feedVars, rankVars>>
    /\ UNCHANGED <<driver, data_size, train_ix, pc, inv, i, cond, folders, ckpt, logs,
                   made, called, start_folders, prev_done, n_write, model, uncleared, load_on>>

\* m.save_state(chk_file, global_step, True)
SaveState ==
    /\ pc = "phase2"
    /\ ~(global_step < epoch_1_size + epoch_2_size)
    /\ ckpt' = [ckpt EXCEPT ![save_path] = Append(@, global_step)]
    /\ events' = Append(events, SaveEvent(global_step))
    /\ n_write' = n_write + 1
    /\ pc' = "saved"
    /\ UNCHANGED <<feedVars, rankVars>>
    /\ UNCHANGED <<driver, data_size, train_ix, global_step, test_steps, test_errors, error_file,
                   inv, i, cond, folders, logs, made, called, start_folders, prev_done,
                   n_train, model, uncleared, load_on>>

\* h5py.File(save_path+"/losses.hdf5", "x"): fails if the file exists
WriteLog ==
    /\ pc = "saved"
    /\ IF logs[save_path] # 0
       THEN /\ pc' = "raised"
            /\ UNCHANGED <<logs, error_file, events, n_write>>
       ELSE /\ logs' = [logs EXCEPT ![save_path] = @ + 1]
            /\ error_file' = <<[test_rank_errors |-> test_errors, test_eval |-> test_steps]>>
            /\ events' = Append(events, LogEvent(Len(test_steps)))
            /\ n_write' = n_write + 1
            /\ pc' = "ret"
    /\ UNCHANGED <<feedVars, rankVars>>
    /\ UNCHANGED <<driver, data_size, train_ix, global_step, test_steps, test_errors,
                   inv, i, cond, folders, ckpt, made, called, start_folders, prev_done,
                   n_train, model, uncleared, load_on>>

\* the locals of retrain at its entry, also their state when no call is in progress
EnterRetrain ==
    /\ global_step' = 0
    /\ test_steps' = <<>>
    /\ test_errors' = <<>>
    /\ error_file' = <<>>
    /\ events' = <<>>

-----------------------------------------------------------------------------
(* A single retrain call *)

NoFiles == [f \in AllFolders |-> <<>>]
NoLogs == [f \in AllFolders |-> 0]

\* mixedInputModel.py is imported and no feed dict is being made
FeedIdle ==
    /\ feed_pc = "idle"
    /\ removal = [given |-> FALSE, values |-> <<>>]
    /\ y_vals = "None"
    /\ keep = "1.0"
    /\ f_dict = <<>>
    /\ scale = <<>>
    /\ h = <<>>

\* trainingGround.py is not running
RankIdle ==
    /\ rank_pc = "idle"
    /\ batch_no = 0
    /\ elem = 0
    /\ rank_real = <<>>
    /\ rank_pred = <<>>
    /\ sum_rank_diffs = 0
    /\ rank_errors = <<>>

InitRetrain ==
    /\ driver \in Drivers
    /\ data_size \in TrainSizes \X TrainSizes
    /\ train_ix \in IF driver = "zf" THEN {<<1, 2>>} ELSE Perms
    /\ pc = "phase1"
    /\ global_step = 0
    /\ test_steps = <<>>
    /\ test_errors = <<>>
    /\ error_file = <<>>
    /\ events = <<>>
    /\ inv = 1
    /\ i = 1
    /\ cond = 1
    /\ folders = {<<1, 1>>}
    /\ ckpt = NoFiles
    /\ logs = NoLogs
    /\ made = {<<1, 1>>}
    /\ called = {<<1, 1>>}
    /\ start_folders = {}
    /\ prev_done = FALSE
    /\ n_train = 0
    /\ n_write = 0
    /\ model = "loaded"
    /\ uncleared = 0
    /\ load_on = "new"
    /\ FeedIdle
    /\ RankIdle

NextRetrain ==
    \/ Phase1Step
    \/ Phase1Exit
    \/ Phase2Step
    \/ SaveState
    \/ WriteLog

SpecRetrain == InitRetrain /\ [][NextRetrain]_vars

-----------------------------------------------------------------------------
(* The batch drivers: the loop over paths_512 *)

InRetrain == pc \in {"phase1", "phase2", "saved"}

\* os.mkdir(folder), then retrain(model, folder, ...) is entered for condition c
MkdirAndRetrain(c) ==
    /\ folders' = folders \cup {<<i, c>>}
    /\ made' = made \cup {<<i, c>>}
    /\ called' = called \cup {<<i, c>>}
    /\ cond' = c
    /\ EnterRetrain
    /\ pc' = "phase1"

\* continue: on to the next model directory; the locals of a retrain call that
\* has returned are gone
Continue ==
    /\ i' = i + 1
    /\ pc' = "loop"
    /\ EnterRetrain
    /\ UNCHANGED <<folders, made, called, cond>>

\* a plausible slip: the folder check dropped and the folder made if missing
ZfFishUnlike_nocheck ==
    /\ pc = "ret"
    /\ driver = "zf"
    /\ cond = 1
    /\ MkdirAndRetrain(2)
    /\ model' = "loaded"
    /\ load_on' = "cleared"
    /\ UNCHANGED <<feedVars, rankVars>>
    /\ UNCHANGED <<driver, data_size, train_ix, i, inv, ckpt, logs, start_folders,
                   prev_done, n_train, n_write, uncleared>>

\* zf_retrain.py: fish-like ablations of model i
ZfFishLike ==
    /\ pc = "loop"
    /\ driver = "zf"
    /\ i <= NModels
    /\ IF <<i, 1>> \in folders
       THEN /\ Continue
            /\ UNCHANGED <<model, uncleared, load_on>>
       ELSE /\ MkdirAndRetrain(1)
            /\ model' = "loaded"
            /\ load_on' = "new"
            /\ uncleared' = IF model = "loaded" THEN uncleared + 1 ELSE uncleared
            /\ UNCHANGED i
    /\ UNCHANGED <<feedVars, rankVars>>
    /\ UNCHANGED <<driver, data_size, train_ix, inv, ckpt, logs, start_folders,
                   prev_done, n_train, n_write>>

\* zf_retrain.py: fish-unlike ablations of model i, after the fish-like retrain
ZfFishUnlike ==
    /\ pc = "ret"
    /\ driver = "zf"
    /\ cond = 1
    /\ IF <<i, 2>> \in folders
       THEN /\ Continue
            /\ UNCHANGED <<model, load_on>>
       ELSE /\ MkdirAndRetrain(2)
            /\ model' = "loaded"
            /\ load_on' = "cleared"
            /\ UNCHANGED i
    /\ UNCHANGED <<feedVars, rankVars>>
    /\ UNCHANGED <<driver, data_size, train_ix, inv, ckpt, logs, start_folders,
                   prev_done, n_train, n_write, uncleared>>

\* zf_retrain.py: the loop body ends after the fish-unlike retrain
ZfNext ==
    /\ pc = "ret"
    /\ driver = "zf"
    /\ cond = 2
    /\ i' = i + 1
    /\ pc' = "loop"
    /\ EnterRetrain
    /\ UNCHANGED <<feedVars, rankVars>>
    /\ UNCHANGED <<driver, data_size, train_ix, inv, cond, folders, ckpt,
                   logs, made, called, start_folders, prev_done, n_train, n_write,
                   model, uncleared, load_on>>

\* np.random.shuffle(train_ix): any order may result
CeShuffle(p) == p \in Perms

\* ce_retrain.py: temperature-branch retrain of model i
CeTBranch ==
    /\ pc = "loop"
    /\ driver = "ce"
    /\ i <= NModels
    /\ \E p \in Perms : CeShuffle(p) /\ train_ix' = p
    /\ uncleared' = IF model = "loaded" THEN uncleared + 1 ELSE uncleared
    /\ IF <<i, 1>> \in folders
       THEN /\ pc' = "m_check"
            /\ model' = "None"
            /\ UNCHANGED load_on
            /\ UNCHANGED <<folders, made, called, cond, retrainVars>>
       ELSE /\ MkdirAndRetrain(1)
            /\ model' = "loaded"
            /\ load_on' = "new"
    /\ UNCHANGED <<feedVars, rankVars>>
    /\ UNCHANGED <<driver, data_size, i, inv, ckpt, logs, start_folders, prev_done,
                   n_train, n_write>>

\* a plausible slip: no check of the disk, the folder made if it is missing
CeMBranch_nocheck ==
    /\ driver = "ce"
    /\ pc = "m_check" \/ (pc = "ret" /\ cond = 1)
    /\ MkdirAndRetrain(2)
    /\ model' = "loaded"
    /\ load_on' = "new"
    /\ UNCHANGED <<feedVars, rankVars>>
    /\ UNCHANGED <<driver, data_size, train_ix, i, inv, ckpt, logs, start_folders,
                   prev_done, n_train, n_write, uncleared>>

\* ce_retrain.py: shared-branch retrain of model i
CeMBranch ==
    /\ driver = "ce"
    /\ pc = "m_check" \/ (pc = "ret" /\ cond = 1)
    /\ IF <<i, 2>> \in folders
       THEN /\ Continue
            /\ UNCHANGED <<model, load_on>>
       ELSE /\ MkdirAndRetrain(2)
            /\ model' = "loaded"
            /\ load_on' = "new"
            /\ UNCHANGED i
    /\ UNCHANGED <<feedVars, rankVars>>
    /\ UNCHANGED <<driver, data_size, train_ix, inv, ckpt, logs, start_folders,
                   prev_done, n_train, n_write, uncleared>>

\* ce_retrain.py: model.clear() ends the loop body
CeNext ==
    /\ pc = "ret"
    /\ driver = "ce"
    /\ cond = 2
    /\ model' = "cleared"
    /\ i' = i + 1
    /\ pc' = "loop"
    /\ EnterRetrain
    /\ UNCHANGED <<feedVars, rankVars>>
    /\ UNCHANGED <<driver, data_size, train_ix, inv, cond, folders, ckpt,
                   logs, made, called, start_folders, prev_done, n_train, n_write,
                   uncleared, load_on>>

\* the loop over paths_512 is exhausted: the script ends
LoopEnd ==
    /\ pc = "loop"
    /\ i > NModels
    /\ pc' = "done"
    /\ UNCHANGED <<feedVars, rankVars>>
    /\ UNCHANGED <<driver, data_size, train_ix, retrainVars, driverVars>>

\* an I/O failure or a kill inside retrain: nothing catches it, the script ends and
\* leaves the folder and the files written so far
Abort ==
    /\ InRetrain
    /\ pc' = "aborted"
    /\ EnterRetrain
    /\ UNCHANGED <<feedVars, rankVars>>
    /\ UNCHANGED <<driver, data_size, train_ix, driverVars>>

\* the script is run again on the same base_path
Invoke ==
    /\ pc \in {"done", "aborted", "raised"}
    /\ inv < MaxInvocations
    /\ inv' = inv + 1
    /\ prev_done' = (pc = "done")
    /\ pc' = "loop"
    /\ i' = 1
    /\ cond' = 1
    /\ train_ix' = <<1, 2>>
    /\ EnterRetrain
    /\ made' = {}
    /\ called' = {}
    /\ start_folders' = folders
    /\ n_train' = 0
    /\ n_write' = 0
    /\ model' = "unbound"
    /\ uncleared' = 0
    /\ load_on' = "none"
    /\ UNCHANGED <<feedVars, rankVars>>
    /\ UNCHANGED <<driver, data_size, folders, ckpt, logs>>

\* output of an earlier, complete run in a folder that exists at the start
PriorCkpt == <<0>>
PriorLog == 1

InitDriver ==
    /\ driver \in Drivers
    /\ data_size \in DriverSizes \X DriverSizes
    /\ train_ix = <<1, 2>>
    /\ pc = "loop"
    /\ global_step = 0
    /\ test_steps = <<>>
    /\ test_errors = <<>>
    /\ error_file = <<>>
    /\ events = <<>>
    /\ inv = 1
    /\ i = 1
    /\ cond = 1
    /\ folders \in SUBSET AllFolders
    /\ ckpt = [f \in AllFolders |-> IF f \in folders THEN PriorCkpt ELSE <<>>]
    /\ logs = [f \in AllFolders |-> IF f \in folders THEN PriorLog ELSE 0]
    /\ made = {}
    /\ called = {}
    /\ start_folders = folders
    /\ prev_done = FALSE
    /\ n_train = 0
    /\ n_write = 0
    /\ model = "unbound"
    /\ uncleared = 0
    /\ load_on = "none"
    /\ FeedIdle
    /\ RankIdle

NextDriver ==
    \/ ZfFishLike
    \/ ZfFishUnlike
    \/ ZfNext
    \/ CeTBranch
    \/ CeMBranch
    \/ CeNext
    \/ LoopEnd
    \/ Phase1Step
    \/ Phase1Exit
    \/ Phase2Step
    \/ SaveState
    \/ WriteLog
    \/ Abort
    \/ Invoke

SpecDriver == InitDriver /\ [][NextDriver]_vars

-----------------------------------------------------------------------------
(* mixedInputModel.py: the feed dict and the masked hidden layers *)

\* removal lists given to create_feed_dict have up to N_HIDDEN + MaxExtra vectors
MaxExtra == 1

N_DENSE == <<512, 512, 512>>
N_HIDDEN == Len(N_DENSE)

\* the placeholder of layer index (0-based), known by its name "remove_<index>"
name_det_remove(index) == <<"remove", index>>
det_remove(index) == name_det_remove(index)
x_in == <<"x_in", 0>>
keep_prob == <<"keep_prob", 0>>
y_ == <<"y_", 0>>

\* np.ones(n)
Ones(n) == [j \in 1..n |-> 1]

\* a removal vector over n units that removes the first z of them
Mask(n, z) == [j \in 1..n |-> IF j <= z THEN 0 ELSE 1]

\* the removal vectors tried for a layer of n units: none, one, all but one and
\* all units removed
MaskSet(n) == {Mask(n, z) : z \in {0, 1, n - 1, n}}

\* the values of the argument removal: None, or a list of removal vectors
RemovalArgs ==
    {[given |-> FALSE, values |-> <<>>]} \cup
    {[given |-> TRUE, values |-> vs] :
        vs \in UNION {[1..n -> MaskSet(N_DENSE[1])] : n \in 0..(N_HIDDEN + MaxExtra)}}

\* a plausible slip: the loop over the layers stops one layer short
LayerRange_short == 0..(N_HIDDEN - 2)

\* range(N_HIDDEN)
LayerRange == 0..(N_HIDDEN - 1)

\* feed_det_remove: ok is FALSE when ValueError is raised
feed_det_remove(feed_dict, values) ==
    IF values.given /\ Len(values.values) # N_HIDDEN
    THEN [ok |-> FALSE, dict |-> feed_dict]
    ELSE [ok |-> TRUE,
          dict |-> [k \in DOMAIN feed_dict \cup {det_remove(l) : l \in LayerRange} |->
                      IF k \in {det_remove(l) : l \in LayerRange}
                      THEN IF values.given
                           THEN values.values[k[2] + 1]
                           ELSE Ones(N_DENSE[k[2] + 1])
                      ELSE feed_dict[k]]]

create_feed_dict(x_vals, yv, kp, rem) ==
    LET keys == {x_in, keep_prob} \cup (IF yv # "None" THEN {y_} ELSE {})
        fd == [k \in keys |-> IF k = x_in THEN x_vals
                              ELSE IF k = keep_prob THEN kp ELSE yv]
    IN  feed_det_remove(fd, rem)

\* the sum of v[lo..hi], by halves
RECURSIVE SumRange(_, _, _)
SumRange(v, lo, hi) ==
    IF lo > hi THEN 0
    ELSE IF lo = hi THEN v[lo]
    ELSE LET mid == (lo + hi) \div 2
         IN  SumRange(v, lo, mid) + SumRange(v, mid + 1, hi)

\* tf.reduce_sum of a vector
reduce_sum(v) == SumRange(v, 1, Len(v))

\* scale = n_units / tf.reduce_sum(det_remove[index]) in float arithmetic: the
\* quotient num / den, or infinity when the sum is zero
Scale(n_units, v) ==
    [inf |-> reduce_sum(v) = 0, num |-> n_units, den |-> reduce_sum(v)]

\* h = relu((matmul + b) * det_remove * scale): 0 * inf is NaN
Hidden(n_units, v) ==
    IF Scale(n_units, v).inf THEN "nan" ELSE "finite"

\* a call of create_feed_dict
CreateFeedDict ==
    /\ feed_pc = "call"
    /\ LET r == create_feed_dict("x", y_vals, keep, removal)
       IN  /\ f_dict' = r.dict
           /\ feed_pc' = IF r.ok THEN "fed" ELSE "raised"
    /\ UNCHANGED <<removal, y_vals, keep, scale, h>>
    /\ UNCHANGED <<scriptVars, rankVars>>

\* the graph is run with the feed dict: every hidden layer is evaluated
RunLayers ==
    /\ feed_pc = "fed"
    /\ scale' = [l \in 1..N_HIDDEN |-> Scale(N_DENSE[l], f_dict[det_remove(l - 1)])]
    /\ h' = [l \in 1..N_HIDDEN |-> Hidden(N_DENSE[l], f_dict[det_remove(l - 1)])]
    /\ feed_pc' = "ran"
    /\ UNCHANGED <<removal, y_vals, keep, f_dict>>
    /\ UNCHANGED <<scriptVars, rankVars>>

\* the script state while mixedInputModel.py alone is exercised
ScriptIdle ==
    /\ driver = "zf"
    /\ data_size = <<0, 0>>
    /\ train_ix = <<1, 2>>
    /\ pc = "idle"
    /\ global_step = 0
    /\ test_steps = <<>>
    /\ test_errors = <<>>
    /\ error_file = <<>>
    /\ events = <<>>
    /\ inv = 0
    /\ i = 1
    /\ cond = 1
    /\ folders = {}
    /\ ckpt = NoFiles
    /\ logs = NoLogs
    /\ made = {}
    /\ called = {}
    /\ start_folders = {}
    /\ prev_done = FALSE
    /\ n_train = 0
    /\ n_write = 0
    /\ model = "unbound"
    /\ uncleared = 0
    /\ load_on = "none"

InitFeed ==
    /\ feed_pc = "call"
    /\ removal \in RemovalArgs
    /\ y_vals \in {"None", "y"}
    /\ keep \in {"1.0", "0.5"}
    /\ f_dict = <<>>
    /\ scale = <<>>
    /\ h = <<>>
    /\ ScriptIdle
    /\ RankIdle

NextFeed ==
    \/ CreateFeedDict
    \/ RunLayers

SpecFeed == InitFeed /\ [][NextFeed]_vars

-----------------------------------------------------------------------------
(* trainingGround.py: the rank error of a batch *)

\* the target and predicted values of a sample range over 1..MaxVal
MaxVal == 4

\* BATCHSIZE of trainingGround.py
TG_BATCHSIZE == 50

\* the samples are numbered: every pair of 4 targets and 4 predictions over
\* 1..MaxVal is one sample, and batch b holds the samples b * BATCHSIZE + elem
NSamples == MaxVal ^ 8
NBatches == (NSamples + TG_BATCHSIZE - 1) \div TG_BATCHSIZE
SampleNo(b, e) == (b * TG_BATCHSIZE + e) % NSamples
Digit(k, pos) == ((k \div (MaxVal ^ pos)) % MaxVal) + 1

\* ybatch[elem, :] and pred[elem, :] of batch b
ybatch(b, e) == [j \in 1..4 |-> Digit(SampleNo(b, e), j - 1)]
pred(b, e) == [j \in 1..4 |-> Digit(SampleNo(b, e), j + 3)]

\* a plausible slip: ranks by a stable argsort, equal values ranked by their index
unique_inverse_stable(x) ==
    [j \in 1..4 |->
        Cardinality({k \in 1..4 : x[k] < x[j] \/ (x[k] = x[j] /\ k < j)})]

\* np.unique(x, return_inverse=True)[1]: for each entry its index in the sorted
\* array of the distinct values of x
unique_inverse(x) ==
    [j \in 1..4 |-> Cardinality({x[k] : k \in {m \in 1..4 : x[m] < x[j]}})]

Abs(n) == IF n < 0 THEN 0 - n ELSE n

\* np.sum(np.abs(a - b))
SumAbsDiff(a, b) ==
    Abs(a[1] - b[1]) + Abs(a[2] - b[2]) + Abs(a[3] - b[3]) + Abs(a[4] - b[4])

\* one pass of the loop over the samples of the batch
RankStep ==
    /\ rank_pc = "loop"
    /\ elem < TG_BATCHSIZE
    /\ rank_real' = unique_inverse(ybatch(batch_no, elem))
    /\ rank_pred' = unique_inverse(pred(batch_no, elem))
    /\ sum_rank_diffs' = sum_rank_diffs + SumAbsDiff(rank_real', rank_pred')
    /\ elem' = elem + 1
    /\ UNCHANGED <<rank_pc, batch_no, rank_errors>>
    /\ UNCHANGED <<scriptVars, feedVars>>

\* rank_errors.append(sum_rank_diffs / BATCHSIZE)
RankAppend ==
    /\ rank_pc = "loop"
    /\ ~(elem < TG_BATCHSIZE)
    /\ rank_errors' = Append(rank_errors, [num |-> sum_rank_diffs, den |-> TG_BATCHSIZE])
    /\ rank_pc' = "appended"
    /\ UNCHANGED <<batch_no, elem, rank_real, rank_pred, sum_rank_diffs>>
    /\ UNCHANGED <<scriptVars, feedVars>>

InitRank ==
    /\ rank_pc = "loop"
    /\ batch_no \in 0..(NBatches - 1)
    /\ elem = 0
    /\ rank_real = <<>>
    /\ rank_pred = <<>>
    /\ sum_rank_diffs = 0
    /\ rank_errors = <<>>
    /\ ScriptIdle
    /\ FeedIdle

NextRank ==
    \/ RankStep
    \/ RankAppend

SpecRank == InitRank /\ [][NextRank]_vars

-----------------------------------------------------------------------------
(* Properties of a retrain call *)

Idx(op) == {k \in 1..Len(events) : events[k].op = op}
TrainIdx(ph) == {k \in Idx("train") : events[k].phase = ph}
\* sizes of the datasets the first and the second loop draw from
S1 == data_size[PhaseData(1)]
S2 == data_size[PhaseData(2)]
Total == (S1 \div BATCHSIZE) + (S2 \div BATCHSIZE)
Finished == pc \in {"saved", "ret"}

\* C1: a retrain call performs floor(s1/B) training steps in the first loop, then
\* floor(s2/B) in the second; the global step starts at 0, grows by one per training
\* step and is never reset; the checkpoint is saved exactly once, after the last
\* training step, with step number floor(s1/B) + floor(s2/B).
C1_StepCounts ==
    /\ global_step = Cardinality(Idx("train"))
    /\ \A k \in Idx("train") :
          events[k].step = Cardinality({j \in Idx("train") : j < k})
    /\ \A a \in TrainIdx(1), b \in TrainIdx(2) : a < b
    /\ Cardinality(TrainIdx(1)) <= S1 \div BATCHSIZE
    /\ Cardinality(TrainIdx(2)) <= S2 \div BATCHSIZE
    /\ Cardinality(Idx("save")) = IF Finished THEN 1 ELSE 0
    /\ Finished =>
          /\ Cardinality(TrainIdx(1)) = S1 \div BATCHSIZE
          /\ Cardinality(TrainIdx(2)) = S2 \div BATCHSIZE
          /\ \A s \in Idx("save") :
                /\ events[s].step = (S1 \div BATCHSIZE) + (S2 \div BATCHSIZE)
                /\ \A k \in Idx("train") : k < s
                /\ ckpt[save_path] = <<events[s].step>>

C1_Witness ==
    /\ pc = "ret"
    /\ Cardinality(TrainIdx(1)) = 51
    /\ Cardinality(TrainIdx(2)) = 1
    /\ S2 = 40

\* C2: an evaluation happens at global step g iff g is a multiple of EVAL_TEST_EVERY
\* below the number of training steps, right before the training step of the same
\* global step; the log written holds two sequences of equal length, the i-th
\* evaluation step paired with the i-th rank error, the steps strictly ascending.
C2_Evaluations ==
    /\ \A k \in Idx("test") :
          /\ k < Len(events)
          /\ events[k + 1].op = "train"
          /\ events[k + 1].step = events[k].step
    /\ \A k, j \in Idx("test") : k < j => events[k].step < events[j].step
    /\ {events[k].step : k \in Idx("test")}
          = {g \in 0..(global_step - 1) : g % 50 = 0}
    /\ pc = "ret" =>
          /\ global_step = Total
          /\ logs[save_path] = 1
          /\ Len(error_file) = 1
          /\ LET lf == error_file[1]
                 tests == SelectSeq(events, LAMBDA e : e.op = "test")
             IN  /\ Len(lf.test_eval) = Len(lf.test_rank_errors)
                 /\ Len(lf.test_eval) = Len(tests)
                 /\ \A k \in 1..Len(tests) :
                       /\ lf.test_eval[k] = tests[k].step
                       /\ lf.test_rank_errors[k] = tests[k].val
                 /\ \A k \in 1..(Len(lf.test_eval) - 1) :
                       lf.test_eval[k] < lf.test_eval[k + 1]

C2_Witness ==
    /\ pc = "ret"
    /\ Total = 102
    /\ error_file[1].test_eval = <<0, 50, 100>>
    /\ error_file[1].test_rank_errors = <<1, 0, 1>>

Case320_160 == S1 = 320 /\ S2 = 160 /\ pc = "ret"
TestSteps == {events[k].step : k \in Idx("test")}
LastTrain == CHOOSE k \in Idx("train") : \A j \in Idx("train") : j <= k

\* C3 as stated: the run over sizes 320 and 160 performs 15 training steps, no
\* evaluation at global step 0, none at 50 and none after the last training step.
C3_Original ==
    Case320_160 =>
        /\ Cardinality(Idx("train")) = 15
        /\ 0 \notin TestSteps
        /\ 50 \notin TestSteps
        /\ \A k \in Idx("test") : k < LastTrain

\* C3, amended: the run over sizes 320 and 160 performs 15 training steps and exactly
\* one evaluation, at global step 0 before the first training step; none at global
\* step 50 and none after the last training step.
C3_FifteenSteps ==
    Case320_160 =>
        /\ Cardinality(Idx("train")) = 15
        /\ Cardinality(TrainIdx(1)) = 10
        /\ Cardinality(TrainIdx(2)) = 5
        /\ Idx("test") = {1}
        /\ TestSteps = {0}
        /\ 50 \notin TestSteps
        /\ \A k \in Idx("test") : k < LastTrain
        /\ error_file[1].test_eval = <<0>>

C3_Witness == Case320_160 /\ Cardinality(Idx("train")) = 15 /\ driver = "zf"

-----------------------------------------------------------------------------
(* Properties of the batch drivers *)

\* C4: a second invocation after a first one that ran to completion performs no
\* training step, calls retrain on nothing, creates no directory, writes no
\* checkpoint and no log, and does not raise.
C4_SecondRunIdle ==
    prev_done =>
        /\ n_train = 0
        /\ called = {}
        /\ made = {}
        /\ n_write = 0
        /\ folders = start_folders
        /\ ~InRetrain
        /\ pc \notin {"raised", "aborted"}

C4_Witness ==
    /\ prev_done
    /\ pc = "done"
    /\ inv = 2
    /\ \E f \in AllFolders : ckpt[f] # <<>> /\ ckpt[f] # PriorCkpt

\* C5 as stated: in an invocation that runs through, every condition whose own
\* folder was absent when the driver reached its model has been retrained, and
\* the batch was not aborted by a folder that exists.
C5_Original ==
    pc = "done" =>
        \A f \in AllFolders : f \notin start_folders => f \in called

\* C8 as stated: every training batch of the first loop is drawn from training
\* dataset 1 and every training batch of the second loop from training dataset 2.
C8_Original ==
    \A k \in Idx("train") : events[k].data = events[k].phase

\* C8, amended: in the zebrafish driver the first loop draws from dataset 1 and the
\* second from dataset 2; in the C. elegans driver each loop draws all its batches
\* from one dataset, the two loops from different datasets, in the order of
\* train_ix as shuffled for the model, which may be dataset 2 first.
C8_PhaseDatasets ==
    /\ \A k, j \in Idx("train") :
          (events[k].phase = events[j].phase) <=> (events[k].data = events[j].data)
    /\ \A k \in Idx("train") :
          /\ events[k].data \in {1, 2}
          /\ driver = "zf" => events[k].data = events[k].phase
          /\ (driver = "ce" /\ (InRetrain \/ pc = "ret")) =>
                events[k].data = train_ix[events[k].phase]

C8_Witness ==
    /\ driver = "ce"
    /\ pc = "ret"
    /\ \E k, j \in Idx("train") :
          /\ events[k].phase = 1 /\ events[k].data = 2
          /\ events[j].phase = 2 /\ events[j].data = 1

C10_State ==
    /\ InRetrain => save_path \in made
    /\ called \subseteq made
    /\ made \cap start_folders = {}
    /\ \A f \in AllFolders : Len(ckpt[f]) <= 1 /\ logs[f] <= 1
    /\ pc # "raised"

C10_Step ==
    /\ folders \subseteq folders'
    /\ \A f \in AllFolders :
          /\ ckpt[f] # <<>> => ckpt'[f] = ckpt[f]
          /\ logs[f] # 0 => logs'[f] = logs[f]
          /\ (ckpt'[f] # ckpt[f] \/ logs'[f] # logs[f]) =>
                (f = save_path /\ f \in made /\ f \notin start_folders)

\* C10: no folder is ever removed, also not that of an aborted run; retrain is only
\* called on a folder that was absent when the invocation started and that the
\* invocation created, so a condition whose folder exists is never trained again;
\* no existing checkpoint or log is overwritten.
C10_ExistingNeverRetrained == []C10_State /\ [][C10_Step]_vars

\* a later invocation has run through over the folder of an aborted run, which
\* holds a checkpoint and no log
C10_Witness ==
    /\ inv > 1
    /\ pc = "done"
    /\ \E f \in start_folders : ckpt[f] # <<>> /\ logs[f] = 0

\* load was only ever called on an object that was new or had been cleared
LoadPrecondition == load_on \in {"none", "new", "cleared"}

\* the loaded model objects that have not been cleared: the dropped ones and
\* the one the variable model is bound to
LoadedUncleared == uncleared + (IF model = "loaded" THEN 1 ELSE 0)

\* C11: in both drivers, whatever folders exist, load is called on a model
\* object only when it was never loaded or was cleared since its last load, and
\* every loaded model object is cleared before a model is loaded for the next
\* model directory: at most one loaded, uncleared model object exists at any time.
C11_Original ==
    /\ LoadPrecondition
    /\ LoadedUncleared <= 1

-----------------------------------------------------------------------------
(* Properties of the feed dict *)

RemoveKeys == {k \in DOMAIN f_dict : k[1] = "remove"}
ZeroSumGiven ==
    /\ removal.given
    /\ \E l \in 1..Len(removal.values) : \A j \in 1..512 : removal.values[l][j] = 0

\* C6 as stated: a removal list with a layer whose vector sums to zero is refused
\* with an error before the rescale factor is computed, and create_feed_dict never
\* returns a feed dict that carries a zero-sum removal vector.
C6_Original ==
    /\ (ZeroSumGiven /\ feed_pc # "call") => feed_pc = "raised"
    /\ feed_pc \in {"fed", "ran"} =>
          \A k \in RemoveKeys : \E j \in 1..512 : f_dict[k][j] # 0
    /\ feed_pc = "ran" => \A l \in 1..3 : ~scale[l].inf /\ h[l] = "finite"

\* C9: a create_feed_dict call that succeeds returns a feed dict with one removal
\* entry for each hidden layer index 0..N_HIDDEN-1 and no other; with removal omitted
\* each entry is all ones, of the length of the layer's unit count; with a removal
\* list whose length is not N_HIDDEN the call raises and no removal entry is added.
C9_FeedDict ==
    /\ feed_pc \in {"fed", "ran"} =>
          /\ RemoveKeys = {<<"remove", 0>>, <<"remove", 1>>, <<"remove", 2>>}
          /\ DOMAIN f_dict \ RemoveKeys =
                {<<"x_in", 0>>, <<"keep_prob", 0>>} \cup
                (IF y_vals = "None" THEN {} ELSE {<<"y_", 0>>})
          /\ ~removal.given =>
                \A k \in RemoveKeys :
                    /\ DOMAIN f_dict[k] = 1..512
                    /\ \A j \in 1..512 : f_dict[k][j] = 1
          /\ removal.given =>
                /\ Len(removal.values) = 3
                /\ \A k \in RemoveKeys : f_dict[k] = removal.values[k[2] + 1]
    /\ (removal.given /\ Len(removal.values) # 3) =>
          /\ feed_pc \in {"call", "raised"}
          /\ RemoveKeys = {}
    /\ feed_pc = "raised" => (removal.given /\ Len(removal.values) # 3)

C9_Witness ==
    /\ feed_pc = "fed"
    /\ ~removal.given
    /\ Cardinality(RemoveKeys) = 3
    /\ y_vals = "y"

-----------------------------------------------------------------------------
(* Properties of the rank error *)

\* the sample handled last
LastY == ybatch(batch_no, elem - 1)
LastP == pred(batch_no, elem - 1)

\* the position of each value in a stable ascending sort
StableRank(x) ==
    [j \in 1..4 |->
        Cardinality({k \in 1..4 : x[k] < x[j] \/ (x[k] = x[j] /\ k < j)})]

\* x[k] is the first entry of x with its value
FirstOfValue(x, k) == \A m \in 1..(k - 1) : x[m] # x[k]
SmallerValue(x, j, k) == IF x[k] < x[j] /\ FirstOfValue(x, k) THEN 1 ELSE 0

\* the number of distinct smaller values of the sample: equal values share a rank
SharedRank(x) ==
    [j \in 1..4 |-> SmallerValue(x, j, 1) + SmallerValue(x, j, 2)
                      + SmallerValue(x, j, 3) + SmallerValue(x, j, 4)]

NoTies(x) == \A j, k \in 1..4 : j # k => x[j] # x[k]

\* C7 as stated: the rank error of a sample is the sum over the 4 positions of
\* |rank_target - rank_pred| with the ranks of a stable ascending sort, equal values
\* getting distinct ranks in the order of their index.
C7_Original ==
    elem > 0 =>
        SumAbsDiff(rank_real, rank_pred) = SumAbsDiff(StableRank(LastY), StableRank(LastP))

C7_State ==
    /\ elem = 0 => sum_rank_diffs = 0
    /\ elem > 0 =>
          LET y == LastY
              p == LastP
              d == SumAbsDiff(rank_real, rank_pred)
          IN  /\ rank_real = SharedRank(y)
              /\ rank_pred = SharedRank(p)
              /\ (NoTies(y) /\ NoTies(p)) =>
                    d = SumAbsDiff(StableRank(y), StableRank(p))
              /\ y = p => d = 0
              /\ (y = <<1, 2, 3, 4>> /\ p = <<4, 3, 2, 1>>) => d = 8
    /\ rank_pc = "appended" =>
          /\ elem = 50
          /\ rank_errors = <<[num |-> sum_rank_diffs, den |-> 50]>>

C7_Step ==
    /\ elem' # elem =>
          /\ elem' = elem + 1
          /\ sum_rank_diffs' = sum_rank_diffs
                + SumAbsDiff(SharedRank(ybatch(batch_no, elem)),
                             SharedRank(pred(batch_no, elem)))
    /\ elem' = elem => sum_rank_diffs' = sum_rank_diffs
    /\ batch_no' = batch_no

\* C7, amended: the rank of a value is the number of distinct smaller values of its
\* sample (equal values share a rank); the rank error of a sample is the sum of
\* |rank_target - rank_pred| over the 4 positions, which is that of the stable-sort
\* ranks when neither sample has equal values, 0 when prediction equals target and
\* 8 for target [1,2,3,4] and prediction [4,3,2,1]; the batch value is the sum of
\* the samples' rank errors divided by the number of samples, 50.
C7_RankError == []C7_State /\ [][C7_Step]_vars

C7_Witness ==
    /\ elem > 0
    /\ LastY = <<1, 2, 3, 4>>
    /\ LastP = <<4, 3, 2, 1>>
    /\ SumAbsDiff(rank_real, rank_pred) = 8

====
